---- MODULE Spec2Model ----
(***************************************************************************)
(* Debt / shared-expense ledger of MadaFinances.                           *)
(*                                                                         *)
(* Two ledgers live in the spreadsheet:                                    *)
(*   - the "Shared Expenses" worksheet, written by                         *)
(*     SheetsService.log_shared_expense and settle_shared_expense and read *)
(*     by get_balances (services/sheets.py);                               *)
(*   - the "Debts" worksheet, used by DebtService (services/debt.py)       *)
(*     through SheetsService.record_debt / get_debts_by_person /           *)
(*     settle_debt / get_net_balance.                                      *)
(* Amounts are whole currency units, dates are day numbers.                *)
(***************************************************************************)
EXTENDS Integers, Sequences, FiniteSets, TLC

VARIABLES shared, debts, expenses, nextId, today, last, loop, call, user_data,
          budgets, conversation

vars == <<shared, debts, expenses, nextId, today, last, loop, call, user_data,
         budgets, conversation>>

(* ------------------------------ bounds -------------------------------- *)
MaxRows == 2
MaxAmount == 2
MaxDay == 2

(* ------------------------------ values -------------------------------- *)
Persons == {"jana", "Jana", "bob"}

\* str.lower() on the person names of the model
lower(p) == IF p = "Jana" THEN "jana" ELSE IF p = "Food" THEN "food" ELSE p

\* amounts a caller can pass: no caller rejects 0 (float("0"), the \d+ patterns)
RecordAmounts == 0..MaxAmount
SettleAmounts == 0..(MaxAmount + 1)

abs(x) == IF x < 0 THEN 0 - x ELSE x

RECURSIVE SortedBy(_, _)
\* sorted(seq, key=...): Python's sort is stable, so ties keep sheet order
SortedBy(S, key) ==
  IF S = {} THEN <<>>
  ELSE LET m == CHOOSE x \in S :
                  \A y \in S : key[x] < key[y] \/ (key[x] = key[y] /\ x <= y)
       IN  <<m>> \o SortedBy(S \ {m}, key)

\* list.sort(key=...) on a list given in any order: the elements by ascending
\* key, elements of equal key in the order the list had them
StableSort(list, key) ==
  LET order == SortedBy(1..Len(list), [k \in 1..Len(list) |-> key[list[k]]])
  IN  [k \in 1..Len(list) |-> list[order[k]]]

RECURSIVE SumOver(_, _)
\* sum(f[i] for i in S)
SumOver(S, f) ==
  IF S = {} THEN 0
  ELSE LET i == CHOOSE x \in S : TRUE IN f[i] + SumOver(S \ {i}, f)

(* ===================== "Shared Expenses" worksheet ==================== *)

\* the row appended by log_shared_expense: status "Unpaid", empty settled date
\* (settled = 0).  The Date and Category cells are never read or written by
\* any operation on this worksheet and are left out.
SharedRow(description, amount, person, direction) ==
  [description |-> description, amount |-> amount,
   person |-> person, direction |-> direction,
   status |-> "Unpaid", settled |-> 0]

log_shared_expense(sheet, description, amount, person, direction) ==
  Append(sheet, SharedRow(description, amount, person, direction))

\* status.lower() in ['unpaid', 'partial']
IsOpen(row) == row.status \in {"Unpaid", "Partial"}

\* unpaid_expenses without the person test
unpaid_expenses_AnyPerson(sheet, person) ==
  {i \in 1..Len(sheet) : IsOpen(sheet[i])}

\* unpaid_expenses without the status test
unpaid_expenses_AnyStatus(sheet, person) ==
  {i \in 1..Len(sheet) : lower(sheet[i].person) = lower(person)}

\* rows of `person` that settle_shared_expense collects as unpaid_expenses
unpaid_expenses(sheet, person) ==
  {i \in 1..Len(sheet) : lower(sheet[i].person) = lower(person) /\ IsOpen(sheet[i])}

AmountOf(sheet) == [i \in 1..Len(sheet) |-> sheet[i].amount]

RECURSIVE SettleLoop(_, _, _, _, _, _)
\* the for-loop of settle_shared_expense over sorted(unpaid_expenses, key=amount)
SettleLoop(sheet, order, dir, remaining, settled_amount, day) ==
  IF order = <<>> THEN [sheet |-> sheet, settled_amount |-> settled_amount]
  ELSE
    LET i == Head(order)
        exp_amount == sheet[i].amount
    IN  IF sheet[i].direction = dir /\ remaining > 0
        THEN IF remaining >= exp_amount
             THEN SettleLoop([sheet EXCEPT ![i].status = "Settled", ![i].settled = day],
                             Tail(order), dir, remaining - exp_amount,
                             settled_amount + exp_amount, day)
             ELSE SettleLoop([sheet EXCEPT ![i].status = "Partial"],
                             Tail(order), dir, 0, settled_amount + remaining, day)
        ELSE SettleLoop(sheet, Tail(order), dir, remaining, settled_amount, day)

RECURSIVE cell_writes(_, _, _, _, _)
\* the worksheet.update_cell requests the for-loop sends, in the order it
\* sends them: status and then settled date for a fully settled row, only the
\* status for a partially settled one
cell_writes(sheet, order, dir, remaining, day) ==
  IF order = <<>> THEN <<>>
  ELSE
    LET i == Head(order)
        exp_amount == sheet[i].amount
    IN  IF sheet[i].direction = dir /\ remaining > 0
        THEN IF remaining >= exp_amount
             THEN <<[row |-> i, cell |-> "status", status |-> "Settled", settled |-> 0],
                    [row |-> i, cell |-> "settled", status |-> "", settled |-> day]>>
                  \o cell_writes(sheet, Tail(order), dir, remaining - exp_amount, day)
             ELSE <<[row |-> i, cell |-> "status", status |-> "Partial", settled |-> 0]>>
                  \o cell_writes(sheet, Tail(order), dir, 0, day)
        ELSE cell_writes(sheet, Tail(order), dir, remaining, day)

\* worksheet.update_cell(row_idx, column, value) for one request of cell_writes
update_cell(sheet, w) ==
  IF w.cell = "status"
  THEN [sheet EXCEPT ![w.row].status = w.status]
  ELSE [sheet EXCEPT ![w.row].settled = w.settled]

\* settle_shared_expense up to its first write: whether the person has open
\* rows, and the update_cell requests computed from the values read
settle_requests(sheet, person, hasAmount, amt, day) ==
  LET unpaid == unpaid_expenses(sheet, person)
      they_owe_me == SumOver({i \in unpaid : sheet[i].direction = "they_owe_me"}, AmountOf(sheet))
      i_owe_them == SumOver({i \in unpaid : sheet[i].direction = "i_owe_them"}, AmountOf(sheet))
      net_amount == they_owe_me - i_owe_them
      amount == IF hasAmount THEN amt ELSE abs(net_amount)
      dir == IF net_amount > 0 THEN "they_owe_me" ELSE "i_owe_them"
  IN  [found |-> Len(sheet) # 0 /\ unpaid # {},
       writes |-> cell_writes(sheet, SortedBy(unpaid, AmountOf(sheet)), dir, amount, day)]

\* settle_shared_expense without the "No unpaid expenses found" return
settle_shared_expense_NoGuard(sheet, person, hasAmount, amt, day) ==
  LET unpaid == unpaid_expenses(sheet, person)
      they_owe_me == SumOver({i \in unpaid : sheet[i].direction = "they_owe_me"}, AmountOf(sheet))
      i_owe_them == SumOver({i \in unpaid : sheet[i].direction = "i_owe_them"}, AmountOf(sheet))
      net_amount == they_owe_me - i_owe_them
      amount == IF hasAmount THEN amt ELSE abs(net_amount)
      dir == IF net_amount > 0 THEN "they_owe_me" ELSE "i_owe_them"
      done == SettleLoop(sheet, SortedBy(unpaid, AmountOf(sheet)), dir, amount, 0, day)
  IN  [success |-> TRUE, sheet |-> done.sheet, settled_amount |-> done.settled_amount,
       net_amount |-> net_amount, amount |-> amount]

\* SheetsService.settle_shared_expense(person, amount); hasAmount = FALSE is amount=None
settle_shared_expense(sheet, person, hasAmount, amt, day) ==
  LET unpaid == unpaid_expenses(sheet, person)
      they_owe_me == SumOver({i \in unpaid : sheet[i].direction = "they_owe_me"}, AmountOf(sheet))
      i_owe_them == SumOver({i \in unpaid : sheet[i].direction = "i_owe_them"}, AmountOf(sheet))
      net_amount == they_owe_me - i_owe_them
      amount == IF hasAmount THEN amt ELSE abs(net_amount)
      dir == IF net_amount > 0 THEN "they_owe_me" ELSE "i_owe_them"
      done == SettleLoop(sheet, SortedBy(unpaid, AmountOf(sheet)), dir, amount, 0, day)
  IN  IF Len(sheet) = 0 \/ unpaid = {}
      THEN [success |-> FALSE, sheet |-> sheet, settled_amount |-> 0,
            net_amount |-> 0, amount |-> amt]
      ELSE [success |-> TRUE, sheet |-> done.sheet, settled_amount |-> done.settled_amount,
            net_amount |-> net_amount, amount |-> amount]

\* get_balances without the "only unpaid or partial" test
get_balances_AllStatuses(sheet) ==
  LET rows(p) == {i \in 1..Len(sheet) : sheet[i].person = p}
      owed(p) == SumOver({i \in rows(p) : sheet[i].direction = "they_owe_me"}, AmountOf(sheet))
      owing(p) == SumOver({i \in rows(p) : sheet[i].direction # "they_owe_me"}, AmountOf(sheet))
  IN  [p \in {q \in Persons : rows(q) # {}} |->
         [they_owe_me |-> owed(p), i_owe_them |-> owing(p),
          net_amount |-> owed(p) - owing(p)]]

\* SheetsService.get_balances(): keyed by the Person cell as stored
get_balances(sheet) ==
  LET open(p) == {i \in 1..Len(sheet) : sheet[i].person = p /\ IsOpen(sheet[i])}
      owed(p) == SumOver({i \in open(p) : sheet[i].direction = "they_owe_me"}, AmountOf(sheet))
      owing(p) == SumOver({i \in open(p) : sheet[i].direction # "they_owe_me"}, AmountOf(sheet))
  IN  [p \in {q \in Persons : open(q) # {}} |->
         [they_owe_me |-> owed(p), i_owe_them |-> owing(p),
          net_amount |-> owed(p) - owing(p)]]

(* ========================= "Debts" worksheet ========================== *)

\* persons as the bot stores them: every entry path lower-cases the name
DebtPersons == {"jana", "bob"}

\* the row with a constant in place of the generated id
DebtRow_FixedId(id, date, person, description, amount, direction) ==
  [id |-> 1, date |-> date, person |-> person, description |-> description,
   amount |-> amount, direction |-> direction, status |-> "active", settled |-> 0]

\* the row SheetsService.record_debt appends for a debt_data dictionary
DebtRow(id, date, person, description, amount, direction) ==
  [id |-> id, date |-> date, person |-> person, description |-> description,
   amount |-> amount, direction |-> direction, status |-> "active", settled |-> 0]

\* SheetsService.record_debt(debt_data)
record_debt(sheet, debt_data) == Append(sheet, debt_data)

\* SheetsService.get_debts_by_person(person, status): row numbers, in sheet order
get_debts_by_person(sheet, person, status) ==
  {i \in 1..Len(sheet) : lower(sheet[i].person) = lower(person) /\ sheet[i].status = status}

\* SheetsService.settle_debt(debt_id, amount, settled_date): settle one entry,
\* splitting it when the amount is smaller than the entry (hasAmount = FALSE is None)
SheetsService_settle_debt(sheet, debt_id, hasAmount, amount, settled_date, newId) ==
  LET rows == {i \in 1..Len(sheet) : sheet[i].id = debt_id /\ sheet[i].status = "active"}
  IN  IF rows = {} THEN [success |-> FALSE, sheet |-> sheet, split |-> FALSE]
      ELSE
        LET i == CHOOSE r \in rows : TRUE
            entry == sheet[i]
        IN  IF (~hasAmount) \/ amount >= entry.amount
            THEN [success |-> TRUE, split |-> FALSE,
                  sheet |-> [sheet EXCEPT ![i].status = "settled",
                                          ![i].settled = settled_date]]
            ELSE [success |-> TRUE, split |-> TRUE,
                  sheet |-> Append([sheet EXCEPT ![i].amount = amount,
                                                 ![i].status = "settled",
                                                 ![i].settled = settled_date],
                                   DebtRow(newId, entry.date, entry.person,
                                           Append(entry.description, "(remaining)"),
                                           entry.amount - amount, entry.direction))]

\* the worksheet when SheetsService.settle_debt stops between the two writes
\* of a split: the entry is reduced and settled, the remainder is not appended
SheetsService_settle_debt_interrupted(sheet, debt_id, amount, settled_date, newId) ==
  LET result == SheetsService_settle_debt(sheet, debt_id, TRUE, amount, settled_date, newId)
  IN  [split |-> result.split,
       sheet |-> SubSeq(result.sheet, 1, Len(sheet)),
       remainder |-> IF result.split THEN <<result.sheet[Len(result.sheet)]>> ELSE <<>>]

DateOf(sheet) == [i \in 1..Len(sheet) |-> sheet[i].date]

\* SheetsService.get_net_balance(person): derived from the active rows; None
\* (has = FALSE) when the person has no active row
get_net_balance(sheet, person) ==
  LET active == get_debts_by_person(sheet, person, "active")
      from == SumOver({i \in active : sheet[i].direction = "from"}, AmountOf(sheet))
      to == SumOver({i \in active : sheet[i].direction = "to"}, AmountOf(sheet))
  IN  [has |-> active # {}, person |-> person, balance |-> from - to,
       amount |-> abs(from - to), they_owe |-> from - to > 0, you_owe |-> from - to < 0]

\* SheetsService.get_net_balance(): one balance per person with an active
\* row, in the order in which the persons first appear in the worksheet
get_net_balance_all(sheet) ==
  LET firsts == {i \in 1..Len(sheet) :
                   /\ sheet[i].status = "active"
                   /\ \A j \in 1..(i - 1) :
                        ~(sheet[j].status = "active"
                          /\ lower(sheet[j].person) = lower(sheet[i].person))}
      order == SortedBy(firsts, [i \in 1..Len(sheet) |-> i])
  IN  [k \in 1..Len(order) |-> get_net_balance(sheet, sheet[order[k]].person)]

\* DebtService.get_balance(person) that treats a missing balance as an error
DebtService_get_balance_Fails(sheet, person) ==
  LET balance == get_net_balance(sheet, person)
  IN  IF ~balance.has
      THEN [success |-> FALSE, data |-> [person |-> person, balance |-> 0]]
      ELSE [success |-> TRUE,
            data |-> [person |-> balance.person, balance |-> balance.balance,
                      amount |-> balance.amount, they_owe |-> balance.they_owe,
                      you_owe |-> balance.you_owe]]

\* DebtService.get_balance(person)
DebtService_get_balance(sheet, person) ==
  LET balance == get_net_balance(sheet, person)
  IN  IF ~balance.has
      THEN [success |-> TRUE, data |-> [person |-> person, balance |-> 0]]
      ELSE [success |-> TRUE,
            data |-> [person |-> balance.person, balance |-> balance.balance,
                      amount |-> balance.amount, they_owe |-> balance.they_owe,
                      you_owe |-> balance.you_owe]]

\* list.sort(key=lambda x: x["amount"], reverse=True) on the balances at the
\* positions S: highest amount first, equal amounts in their original order
ByAmountDescending(balances, S) ==
  LET order == SortedBy(S, [i \in 1..Len(balances) |-> 0 - balances[i].amount])
  IN  [k \in 1..Len(order) |-> balances[order[k]]]

\* the two sorts without reverse=True
ByAmountAscending(balances, S) ==
  LET order == SortedBy(S, [i \in 1..Len(balances) |-> balances[i].amount])
  IN  [k \in 1..Len(order) |-> balances[order[k]]]

\* list_all_balances with the groups sorted lowest amount first
list_all_balances_Ascending(balances) ==
  LET owe == {i \in 1..Len(balances) : balances[i].they_owe}
      owed == {i \in 1..Len(balances) : ~balances[i].they_owe /\ balances[i].you_owe}
      amounts == [i \in 1..Len(balances) |-> balances[i].amount]
      total_owed_to_you == SumOver(owe, amounts)
      total_you_owe == SumOver(owed, amounts)
  IN  [success |-> TRUE,
       they_owe_you |-> ByAmountAscending(balances, owe),
       you_owe_them |-> ByAmountAscending(balances, owed),
       total_owed_to_you |-> total_owed_to_you,
       total_you_owe |-> total_you_owe,
       net_position |-> total_owed_to_you - total_you_owe]

\* DebtService.list_all_balances() on the balances the store returns; the two
\* groups are the lists the message prints
list_all_balances(balances) ==
  LET owe == {i \in 1..Len(balances) : balances[i].they_owe}
      owed == {i \in 1..Len(balances) : ~balances[i].they_owe /\ balances[i].you_owe}
      amounts == [i \in 1..Len(balances) |-> balances[i].amount]
      total_owed_to_you == SumOver(owe, amounts)
      total_you_owe == SumOver(owed, amounts)
  IN  [success |-> TRUE,
       they_owe_you |-> ByAmountDescending(balances, owe),
       you_owe_them |-> ByAmountDescending(balances, owed),
       total_owed_to_you |-> total_owed_to_you,
       total_you_owe |-> total_you_owe,
       net_position |-> total_owed_to_you - total_you_owe]

\* the expense row DebtService.settle_debt hands to SheetsService.log_expense
ExpenseRow(date, person, amount) ==
  [date |-> date, description |-> <<"Debt payment to", person>>, amount |-> amount,
   category |-> "Debt Payment", source |-> "debt_settlement"]

\* SheetsService.log_expense(expense_data)
log_expense(sheet, expense_data) == Append(sheet, expense_data)

\* DebtService.settle_debt(settlement_data) with person, amount (hasAmount =
\* FALSE: no "amount" key) and date
DebtService_settle_debt(sheet, exps, person, hasAmount, amount, date, newId) ==
  LET active_debts == get_debts_by_person(sheet, person, "active")
  IN  IF active_debts = {}
      THEN [success |-> FALSE, sheet |-> sheet, expenses |-> exps, settled |-> 0]
      ELSE
        LET debt_to_settle == Head(SortedBy(active_debts, DateOf(sheet)))
            is_you_paying == sheet[debt_to_settle].direction = "to"
            result == SheetsService_settle_debt(sheet, sheet[debt_to_settle].id,
                                                hasAmount, amount, date, newId)
            paid == IF hasAmount THEN amount ELSE sheet[debt_to_settle].amount
        IN  [success |-> result.success,
             sheet |-> result.sheet,
             expenses |-> IF result.success /\ is_you_paying
                          THEN log_expense(exps, ExpenseRow(date, person, paid))
                          ELSE exps,
             settled |-> debt_to_settle]

\* DebtService.settle_debt up to the choice of debt_to_settle: the oldest
\* active entry of the person as read from the worksheet, <<>> if there is none
select_debt(sheet, person) ==
  LET active_debts == get_debts_by_person(sheet, person, "active")
  IN  IF active_debts = {} THEN <<>>
      ELSE <<sheet[Head(SortedBy(active_debts, DateOf(sheet)))]>>

\* DebtService.settle_debt from the chosen debt_to_settle on: the store call
\* for its ID and the expense for a payment by the user
apply_settlement(sheet, exps, debt_to_settle, person, hasAmount, amount, date, newId) ==
  LET is_you_paying == debt_to_settle.direction = "to"
      result == SheetsService_settle_debt(sheet, debt_to_settle.id, hasAmount, amount,
                                          date, newId)
      paid == IF hasAmount THEN amount ELSE debt_to_settle.amount
  IN  [success |-> result.success,
       sheet |-> result.sheet,
       expenses |-> IF result.success /\ is_you_paying
                    THEN log_expense(exps, ExpenseRow(date, person, paid))
                    ELSE exps]

(* ============================== state ================================= *)

\* no SheetsService call is between two of its requests to the spreadsheet
NoCall == [running |-> FALSE, pending |-> <<>>]

\* context.user_data of a chat that has not used the debt conversations
NoUserData == [k \in {} |-> TRUE]

\* the two update handlers the event loop can have in flight
Handlers == {1, 2}

\* a handler coroutine: where it stands in handle_message's settle branch,
\* its settlement_data, the debt_to_settle it has read and the call's result
IdleCall == [pc |-> "idle", person |-> "", amount |-> 0, selected |-> <<>>,
             success |-> FALSE]

\* the event loop: the coroutine that holds the thread (0: none), the ledger
\* at the time the two settle messages arrived, and the coroutines
LoopIdle ==
  [running |-> 0, started |-> FALSE,
   base |-> [debts |-> <<>>, expenses |-> <<>>, nextId |-> 0],
   calls |-> [h \in Handlers |-> IdleCall]]

\* a coroutine gives up the thread at every await, also one after the read
yields_AfterRead(pc) == pc \in {"selected", "reply", "done"}

\* a coroutine gives up the thread only where the handler awaits: the settle
\* call is synchronous, the first await after it is reply_text
yields(pc) == pc \in {"reply", "done"}


\* what the last call was and whether it reported success
NoOp == [op |-> "none", success |-> TRUE]

Init ==
  /\ shared = <<>>
  /\ debts = <<>>
  /\ expenses = <<>>
  /\ nextId = 1
  /\ today = 1
  /\ last = NoOp
  /\ loop = LoopIdle
  /\ call = NoCall
  /\ user_data = NoUserData
  /\ budgets = <<>>
  /\ conversation = "none"

\* the calendar day advances
NextDay ==
  /\ today < MaxDay
  /\ today' = today + 1
  /\ last' = NoOp
  /\ UNCHANGED <<shared, debts, expenses, nextId, loop, call, user_data, budgets, conversation>>

\* SheetsService.log_shared_expense(expense_data)
LogSharedExpense ==
  /\ Len(shared) < MaxRows
  /\ \E person \in Persons, amount \in RecordAmounts,
        direction \in {"they_owe_me", "i_owe_them"} :
       /\ shared' = log_shared_expense(shared, "dinner", amount, person, direction)
       /\ last' = [op |-> "log_shared_expense", success |-> TRUE]
  /\ UNCHANGED <<debts, expenses, nextId, today, loop, call, user_data, budgets, conversation>>

\* SheetsService.settle_shared_expense(person, amount), called by ExpenseService.settle_debt
SettleSharedExpense ==
  /\ \E person \in Persons, hasAmount \in BOOLEAN, amt \in SettleAmounts :
       LET r == settle_shared_expense(shared, person, hasAmount, amt, today)
       IN  /\ (~hasAmount) => amt = 0
           /\ shared' = r.sheet
           /\ last' = [op |-> "settle_shared_expense", success |-> r.success]
  /\ UNCHANGED <<debts, expenses, nextId, today, loop, call, user_data, budgets, conversation>>

NextShared == NextDay \/ LogSharedExpense \/ SettleSharedExpense

SpecShared == Init /\ [][NextShared]_vars

\* DebtService.add_debt: the parsed debt gets a fresh id and status "active"
AddDebt ==
  /\ Len(debts) < MaxRows
  /\ \E person \in DebtPersons, amount \in RecordAmounts, direction \in {"from", "to"} :
       /\ debts' = record_debt(debts, DebtRow(nextId, today, person, <<"dinner">>,
                                              amount, direction))
       /\ last' = [op |-> "add_debt", success |-> TRUE]
  /\ nextId' = nextId + 1
  /\ UNCHANGED <<shared, expenses, today, loop, call, user_data, budgets, conversation>>

\* handle_message, "<amount> <text> (<person>)": the person owes the user
ParenthesesDebt ==
  /\ Len(debts) < MaxRows
  /\ \E person \in Persons, amount \in RecordAmounts :
       /\ debts' = record_debt(debts, DebtRow(nextId, today, lower(person), <<"dinner">>,
                                              amount, "from"))
       /\ last' = [op |-> "record_debt", success |-> TRUE]
  /\ nextId' = nextId + 1
  /\ UNCHANGED <<shared, expenses, today, loop, call, user_data, budgets, conversation>>

\* handle_message, "<amount> <text> - <person>": the user owes the person
DashDebt ==
  /\ Len(debts) < MaxRows
  /\ \E person \in Persons, amount \in RecordAmounts :
       /\ debts' = record_debt(debts, DebtRow(nextId, today, lower(person), <<"dinner">>,
                                              amount, "to"))
       /\ last' = [op |-> "record_debt", success |-> TRUE]
  /\ nextId' = nextId + 1
  /\ UNCHANGED <<shared, expenses, today, loop, call, user_data, budgets, conversation>>

\* handle_message "settle <person> <amount>" / handle_debt_amount_input /
\* the debt_settle intent, all ending in DebtService.settle_debt
SettleDebt ==
  /\ \E person \in DebtPersons, hasAmount \in BOOLEAN, amt \in SettleAmounts :
       LET r == DebtService_settle_debt(debts, expenses, person, hasAmount, amt,
                                        today, nextId)
       IN  /\ (~hasAmount) => amt = 0
           /\ Len(r.sheet) <= MaxRows + 1
           /\ debts' = r.sheet
           /\ expenses' = r.expenses
           /\ nextId' = IF Len(r.sheet) > Len(debts) THEN nextId + 1 ELSE nextId
           /\ last' = [op |-> "settle_debt", success |-> r.success]
  /\ UNCHANGED <<shared, today, loop, call, user_data, budgets, conversation>>

NextDebt == NextDay \/ AddDebt \/ ParenthesesDebt \/ DashDebt \/ SettleDebt

SpecDebt == Init /\ [][NextDebt]_vars

\* DebtService.settle_debt when the store call raises between the two writes
\* of a split: the except branch returns success False.  lost records the
\* remainder that was not written.
SettleDebtSplitFails ==
  /\ \E person \in DebtPersons, amt \in SettleAmounts :
       LET sel == select_debt(debts, person)
       IN  /\ sel # <<>>
           /\ LET r == SheetsService_settle_debt_interrupted(debts, Head(sel).id, amt,
                                                            today, nextId)
              IN  /\ r.split
                  /\ debts' = r.sheet
                  /\ last' = [op |-> "settle_debt", success |-> FALSE,
                              lost |-> Head(r.remainder)]
  /\ nextId' = nextId + 1
  /\ UNCHANGED <<shared, expenses, today, loop, call, user_data, budgets, conversation>>

\* DebtService.settle_debt when the debt is one the user owes, the store call
\* succeeds and ExpenseService() or log_expense then raises: the except
\* branch returns success False
SettleDebtLogFails ==
  /\ \E person \in DebtPersons, hasAmount \in BOOLEAN, amt \in SettleAmounts :
       LET sel == select_debt(debts, person)
       IN  /\ (~hasAmount) => amt = 0
           /\ sel # <<>>
           /\ Head(sel).direction = "to"
           /\ LET result == SheetsService_settle_debt(debts, Head(sel).id, hasAmount,
                                                     amt, today, nextId)
              IN  /\ result.success
                  /\ Len(result.sheet) <= MaxRows + 1
                  /\ debts' = result.sheet
                  /\ nextId' = IF result.split THEN nextId + 1 ELSE nextId
                  /\ last' = [op |-> "settle_debt", success |-> FALSE]
  /\ UNCHANGED <<shared, expenses, today, loop, call, user_data, budgets, conversation>>

NextLogFails == AddDebt \/ DashDebt \/ SettleDebt \/ SettleDebtLogFails

SpecLogFails == Init /\ [][NextLogFails]_vars

\* settle_shared_expense reads the worksheet and works out its updates
BeginSettle ==
  /\ ~call.running
  /\ \E person \in Persons, hasAmount \in BOOLEAN, amt \in SettleAmounts :
       LET q == settle_requests(shared, person, hasAmount, amt, today)
       IN  /\ (~hasAmount) => amt = 0
           /\ IF q.found
              THEN /\ call' = [running |-> TRUE, pending |-> q.writes]
                   /\ last' = NoOp
              ELSE /\ call' = NoCall
                   /\ last' = [op |-> "settle_shared_expense", success |-> FALSE]
  /\ UNCHANGED <<shared, debts, expenses, nextId, today, loop, user_data, budgets, conversation>>

\* the next update_cell request of the call reaches the spreadsheet
UpdateCell ==
  /\ call.running
  /\ call.pending # <<>>
  /\ shared' = update_cell(shared, Head(call.pending))
  /\ call' = [call EXCEPT !.pending = Tail(call.pending)]
  /\ UNCHANGED <<debts, expenses, nextId, today, last, loop, user_data, budgets, conversation>>

\* the next update_cell request raises (API error): the except branch of
\* settle_shared_expense returns success False
UpdateCellFails ==
  /\ call.running
  /\ call.pending # <<>>
  /\ call' = NoCall
  /\ last' = [op |-> "settle_shared_expense", success |-> FALSE]
  /\ UNCHANGED <<shared, debts, expenses, nextId, today, loop, user_data, budgets, conversation>>

\* all requests are done: settle_shared_expense returns success True
SettleReturns ==
  /\ call.running
  /\ call.pending = <<>>
  /\ call' = NoCall
  /\ last' = [op |-> "settle_shared_expense", success |-> TRUE]
  /\ UNCHANGED <<shared, debts, expenses, nextId, today, loop, user_data, budgets, conversation>>

\* get_balances: get_shared_expenses(status=None) reads every row; calls of
\* one process do not overlap, so it runs when no settlement is under way
GetBalances ==
  /\ ~call.running
  /\ shared # <<>>
  /\ last' = [op |-> "get_balances", success |-> TRUE, read |-> shared]
  /\ UNCHANGED <<shared, debts, expenses, nextId, today, loop, call, user_data, budgets, conversation>>

NextCells ==
  \/ (~call.running /\ LogSharedExpense)
  \/ BeginSettle
  \/ UpdateCell
  \/ UpdateCellFails
  \/ SettleReturns
  \/ GetBalances

SpecCells == Init /\ [][NextCells]_vars

\* handle_debt_person_input in the settle conversation: DebtService.get_balance
\* for the name as typed
GetBalance ==
  /\ \E person \in Persons :
       LET r == DebtService_get_balance(debts, person)
       IN  last' = [op |-> "get_balance", success |-> r.success,
                    person |-> person, balance |-> r.data.balance]
  /\ UNCHANGED <<shared, debts, expenses, nextId, today, loop, call, user_data, budgets, conversation>>

\* balance_command: DebtService.list_all_balances()
ListBalances ==
  /\ last' = [op |-> "list_all_balances",
              success |-> list_all_balances(get_net_balance_all(debts)).success]
  /\ UNCHANGED <<shared, debts, expenses, nextId, today, loop, call, user_data, budgets, conversation>>

NextQuery == AddDebt \/ SettleDebt \/ GetBalance \/ ListBalances

SpecQuery == Init /\ [][NextQuery]_vars

NextSplitFails ==
  AddDebt \/ SettleDebt \/ SettleDebtSplitFails \/ GetBalance \/ ListBalances

SpecSplitFails == Init /\ [][NextSplitFails]_vars

\* two "settle <person> <amount>" messages for the same person are waiting
\* to be handled
ReceiveSettles ==
  /\ ~loop.started
  /\ debts # <<>>
  /\ \E person \in DebtPersons, a1, a2 \in SettleAmounts :
       loop' = [running |-> 0, started |-> TRUE,
                base |-> [debts |-> debts, expenses |-> expenses, nextId |-> nextId],
                calls |-> [h \in Handlers |->
                             [pc |-> "start", person |-> person,
                              amount |-> IF h = 1 THEN a1 ELSE a2,
                              selected |-> <<>>, success |-> FALSE]]]
  /\ UNCHANGED <<shared, debts, expenses, nextId, today, last, call, user_data, budgets, conversation>>

\* handler h reads the person's active entries and picks debt_to_settle
ReadActive(h) ==
  /\ loop.running \in {0, h}
  /\ loop.calls[h].pc = "start"
  /\ LET sel == select_debt(debts, loop.calls[h].person)
         pc == IF sel = <<>> THEN "reply" ELSE "selected"
     IN  loop' = [loop EXCEPT !.calls[h].selected = sel,
                              !.calls[h].pc = pc,
                              !.running = IF yields(pc) THEN 0 ELSE h]
  /\ UNCHANGED <<shared, debts, expenses, nextId, today, last, call, user_data, budgets, conversation>>

\* handler h writes the settlement of the entry it picked and logs the expense
WriteUpdates(h) ==
  /\ loop.running \in {0, h}
  /\ loop.calls[h].pc = "selected"
  /\ LET c == loop.calls[h]
         r == apply_settlement(debts, expenses, Head(c.selected), c.person, TRUE,
                               c.amount, today, nextId)
     IN  /\ debts' = r.sheet
         /\ expenses' = r.expenses
         /\ nextId' = IF Len(r.sheet) > Len(debts) THEN nextId + 1 ELSE nextId
         /\ last' = [op |-> "settle_debt", success |-> r.success]
         /\ loop' = [loop EXCEPT !.calls[h].pc = "reply",
                                  !.calls[h].success = r.success,
                                  !.running = IF yields("reply") THEN 0 ELSE h]
  /\ UNCHANGED <<shared, today, call, user_data, budgets, conversation>>

\* await update.message.reply_text(...) of handler h completes
Reply(h) ==
  /\ loop.running \in {0, h}
  /\ loop.calls[h].pc = "reply"
  /\ loop' = [loop EXCEPT !.calls[h].pc = "done",
                           !.running = IF yields("done") THEN 0 ELSE h]
  /\ UNCHANGED <<shared, debts, expenses, nextId, today, last, call, user_data, budgets, conversation>>

NextLoop ==
  \/ (~loop.started /\ AddDebt)
  \/ ReceiveSettles
  \/ \E h \in Handlers : ReadActive(h)
  \/ \E h \in Handlers : WriteUpdates(h)
  \/ \E h \in Handlers : Reply(h)

SpecLoop == Init /\ [][NextLoop]_vars

(* ------------------------- debt conversations ------------------------- *)

\* the flags button_handler and the debt handlers keep in context.user_data
Flags == {"awaiting_debt_person", "awaiting_debt_amount", "awaiting_debt_direction",
          "awaiting_debt_description", "awaiting_settlement_person",
          "awaiting_settlement_amount"}

\* the values the debt handlers keep in context.user_data between two messages
Scratch == {"debt_person", "debt_amount", "debt_direction", "debt_description"}

\* debts the conversations add to the worksheet
MaxChatRows == 1

\* the text messages a user sends: a name, and "1" and "2", which are amounts
\* as well as the two answers to the direction question
Texts == {"jana", "1", "2"}

\* d[k] = v on a dictionary
setitem(d, k, v) == [x \in (DOMAIN d) \cup {k} |-> IF x = k THEN v ELSE d[x]]

\* del d[k] for the keys of S that d has
delitems(d, S) == [x \in (DOMAIN d) \ S |-> d[x]]

\* d.get(k) as a condition: the key is there and its value is true
get(d, k) == k \in DOMAIN d /\ d[k] = TRUE

\* float(user_input.replace(',', '')) raises ValueError for the other texts
is_number(user_input) == user_input \in {"1", "2"}

float(user_input) == IF user_input = "1" THEN 1 ELSE 2

\* handle_debt_person_input: the branches test whether the key is in
\* user_data, whatever its value
handle_debt_person_input(ud, sheet, user_input) ==
  LET d0 == setitem(ud, "debt_person", lower(user_input))
  IN  IF "awaiting_debt_person" \in DOMAIN d0
      THEN [user_data |-> setitem(setitem(d0, "awaiting_debt_person", FALSE),
                                  "awaiting_debt_amount", TRUE),
            ret |-> "AWAITING_DEBT_AMOUNT", branch |-> "add"]
      ELSE IF "awaiting_settlement_person" \in DOMAIN d0
      THEN LET d1 == setitem(d0, "awaiting_settlement_person", FALSE)
               result == DebtService_get_balance(sheet, user_input)
           IN  IF ~result.success \/ result.data.balance = 0
               THEN [user_data |-> d1, ret |-> "END", branch |-> "settle"]
               ELSE [user_data |->
                       setitem(setitem(d1, "debt_direction",
                                       IF result.data.balance > 0 THEN "from" ELSE "to"),
                               "awaiting_settlement_amount", TRUE),
                     ret |-> "AWAITING_DEBT_AMOUNT", branch |-> "settle"]
      ELSE [user_data |-> d0, ret |-> "END", branch |-> "none"]

\* handle_debt_amount_input; ret "raise" is the KeyError of a missing
\* user_data key, which no except clause of the handler catches, ret "None"
\* the end of the function without a return
handle_debt_amount_input(ud, sheet, exps, user_input, date, newId) ==
  IF ~is_number(user_input)
  THEN [user_data |-> ud, ret |-> "AWAITING_DEBT_AMOUNT", branch |-> "invalid",
        sheet |-> sheet, expenses |-> exps]
  ELSE
    LET amount == float(user_input)
        d0 == setitem(ud, "debt_amount", amount)
    IN  IF "awaiting_debt_amount" \in DOMAIN d0
        THEN LET d1 == setitem(d0, "awaiting_debt_amount", FALSE)
             IN  IF "debt_person" \notin DOMAIN d1
                 THEN [user_data |-> d1, ret |-> "raise", branch |-> "add",
                       sheet |-> sheet, expenses |-> exps]
                 ELSE [user_data |-> setitem(d1, "awaiting_debt_direction", TRUE),
                       ret |-> "AWAITING_DEBT_DIRECTION", branch |-> "add",
                       sheet |-> sheet, expenses |-> exps]
        ELSE IF "awaiting_settlement_amount" \in DOMAIN d0
        THEN LET d1 == setitem(d0, "awaiting_settlement_amount", FALSE)
             IN  IF ~({"debt_person", "debt_direction"} \subseteq DOMAIN d1)
                 THEN [user_data |-> d1, ret |-> "raise", branch |-> "settle",
                       sheet |-> sheet, expenses |-> exps]
                 ELSE LET result == DebtService_settle_debt(sheet, exps, d1["debt_person"],
                                                            TRUE, amount, date, newId)
                      IN  [user_data |-> delitems(d1, {"debt_person", "debt_amount",
                                                       "debt_direction"}),
                           ret |-> "END", branch |-> "settle",
                           sheet |-> result.sheet, expenses |-> result.expenses]
        ELSE [user_data |-> d0, ret |-> "None", branch |-> "none",
              sheet |-> sheet, expenses |-> exps]

\* handle_debt_direction_input
handle_debt_direction_input(ud, user_input) ==
  IF user_input \notin {"1", "2"}
  THEN [user_data |-> ud, ret |-> "AWAITING_DEBT_DIRECTION", branch |-> "invalid"]
  ELSE [user_data |->
          setitem(setitem(setitem(ud, "debt_direction",
                                  IF user_input = "1" THEN "from" ELSE "to"),
                          "awaiting_debt_direction", FALSE),
                  "awaiting_debt_description", TRUE),
        ret |-> "AWAITING_DEBT_DESCRIPTION", branch |-> "add"]

\* handle_debt_description_input: add_debt with the collected values; a
\* missing key raises inside the try, and the except branch ends the
\* conversation without the clean-up loop
handle_debt_description_input(ud, sheet, user_input, date, newId) ==
  LET d0 == setitem(ud, "debt_description", IF user_input = "skip" THEN "" ELSE user_input)
      d1 == setitem(d0, "awaiting_debt_description", FALSE)
  IN  IF ~({"debt_person", "debt_amount", "debt_direction"} \subseteq DOMAIN d1)
      THEN [user_data |-> d1, ret |-> "END", branch |-> "error", sheet |-> sheet]
      ELSE [user_data |-> delitems(d1, Scratch), ret |-> "END", branch |-> "add",
            sheet |-> record_debt(sheet, DebtRow(newId, date, d1["debt_person"],
                                                 <<d1["debt_description"]>>,
                                                 d1["debt_amount"], d1["debt_direction"]))]

\* handle_message: the first flag that is true chooses the handler
handle_message(ud) ==
  IF get(ud, "awaiting_debt_person") THEN "handle_debt_person_input"
  ELSE IF get(ud, "awaiting_debt_amount") THEN "handle_debt_amount_input"
  ELSE IF get(ud, "awaiting_debt_direction") THEN "handle_debt_direction_input"
  ELSE IF get(ud, "awaiting_debt_description") THEN "handle_debt_description_input"
  ELSE IF get(ud, "awaiting_settlement_person") THEN "handle_debt_person_input"
  ELSE IF get(ud, "awaiting_settlement_amount") THEN "handle_debt_amount_input"
  ELSE "other"

\* debt_handler.states: the handler of a text message in each state
states(state) ==
  CASE state = "AWAITING_DEBT_PERSON" -> "handle_debt_person_input"
    [] state = "AWAITING_DEBT_AMOUNT" -> "handle_debt_amount_input"
    [] state = "AWAITING_DEBT_DIRECTION" -> "handle_debt_direction_input"
    [] state = "AWAITING_DEBT_DESCRIPTION" -> "handle_debt_description_input"

\* the handler a text message reaches: the one of the conversation's state
\* while debt_handler has a conversation, else the default handle_message
routed == IF conversation # "none" THEN states(conversation) ELSE handle_message(user_data)

\* the state debt_handler keeps after its handler returned ret; outside a
\* conversation the value handle_message returns is not used
next_state(ret) ==
  IF conversation = "none" THEN "none"
  ELSE IF ret = "END" THEN "none"
  ELSE IF ret \in {"None", "raise"} THEN conversation
  ELSE ret

\* no flag of user_data is true and debt_handler has no conversation
fresh == conversation = "none" /\ \A f \in Flags : ~get(user_data, f)

\* button_handler, callback data add_debt: an entry point of debt_handler
\* when there is no conversation, else the general CallbackQueryHandler
PressAddDebt ==
  /\ user_data' = setitem(user_data, "awaiting_debt_person", TRUE)
  /\ conversation' = IF conversation = "none" THEN "AWAITING_DEBT_PERSON"
                     ELSE conversation
  /\ last' = [op |-> "button_handler", success |-> TRUE, data |-> "add_debt",
              fresh |-> fresh]
  /\ UNCHANGED <<shared, debts, expenses, nextId, today, loop, call, budgets>>

\* button_handler, callback data settle_debt
PressSettleDebt ==
  /\ user_data' = setitem(user_data, "awaiting_settlement_person", TRUE)
  /\ conversation' = IF conversation = "none" THEN "AWAITING_DEBT_PERSON"
                     ELSE conversation
  /\ last' = [op |-> "button_handler", success |-> TRUE, data |-> "settle_debt",
              fresh |-> fresh]
  /\ UNCHANGED <<shared, debts, expenses, nextId, today, loop, call, budgets>>

\* a text message that reaches handle_debt_person_input
PersonInput ==
  /\ routed = "handle_debt_person_input"
  /\ \E user_input \in Texts :
       LET r == handle_debt_person_input(user_data, debts, user_input)
       IN  /\ user_data' = r.user_data
           /\ conversation' = next_state(r.ret)
           /\ last' = [op |-> "handle_debt_person_input", success |-> TRUE,
                       branch |-> r.branch, ret |-> r.ret]
  /\ UNCHANGED <<shared, debts, expenses, nextId, today, loop, call, budgets>>

\* a text message that reaches handle_debt_amount_input
AmountInput ==
  /\ routed = "handle_debt_amount_input"
  /\ \E user_input \in Texts :
       LET r == handle_debt_amount_input(user_data, debts, expenses, user_input,
                                         today, nextId)
       IN  /\ Len(r.sheet) <= MaxChatRows + 1
           /\ user_data' = r.user_data
           /\ debts' = r.sheet
           /\ expenses' = r.expenses
           /\ nextId' = IF Len(r.sheet) > Len(debts) THEN nextId + 1 ELSE nextId
           /\ conversation' = next_state(r.ret)
           /\ last' = [op |-> "handle_debt_amount_input", success |-> TRUE,
                       branch |-> r.branch, ret |-> r.ret]
  /\ UNCHANGED <<shared, today, loop, call, budgets>>

\* a text message that reaches handle_debt_direction_input
DirectionInput ==
  /\ routed = "handle_debt_direction_input"
  /\ \E user_input \in Texts :
       LET r == handle_debt_direction_input(user_data, user_input)
       IN  /\ user_data' = r.user_data
           /\ conversation' = next_state(r.ret)
           /\ last' = [op |-> "handle_debt_direction_input", success |-> TRUE,
                       branch |-> r.branch, ret |-> r.ret]
  /\ UNCHANGED <<shared, debts, expenses, nextId, today, loop, call, budgets>>

\* a text message that reaches handle_debt_description_input
DescriptionInput ==
  /\ routed = "handle_debt_description_input"
  /\ Len(debts) < MaxChatRows
  /\ \E user_input \in Texts :
       LET r == handle_debt_description_input(user_data, debts, user_input,
                                              today, nextId)
       IN  /\ user_data' = r.user_data
           /\ debts' = r.sheet
           /\ nextId' = IF Len(r.sheet) > Len(debts) THEN nextId + 1 ELSE nextId
           /\ conversation' = next_state(r.ret)
           /\ last' = [op |-> "handle_debt_description_input", success |-> TRUE,
                       branch |-> r.branch, ret |-> r.ret]
  /\ UNCHANGED <<shared, expenses, today, loop, call, budgets>>

\* outside the conversations handle_message takes a text with no flag set
\* as an expense or a debt, here "<amount> <text> (<person>)"
NextChat ==
  \/ (routed = "other" /\ ParenthesesDebt)
  \/ PressAddDebt
  \/ PressSettleDebt
  \/ PersonInput
  \/ AmountInput
  \/ DirectionInput
  \/ DescriptionInput

SpecChat == Init /\ [][NextChat]_vars

(* ========================= "Budgets" worksheet ======================== *)

\* categories and periods a budget is set for
Categories == {"Food", "food", "Total"}
Periods == {"weekly", "monthly"}

\* the row set_budget appends: Active is written as "TRUE"
BudgetRow(budget_data) ==
  [amount |-> budget_data.amount, period |-> budget_data.period,
   category |-> budget_data.category, active |-> "TRUE"]

\* set_budget's search for existing_row: the first active row of the same
\* category and period, compared in lower case; 0 if there is none
existing_row(sheet, budget_data) ==
  LET matches == {i \in 1..Len(sheet) :
                    /\ lower(sheet[i].category) = lower(budget_data.category)
                    /\ lower(sheet[i].period) = lower(budget_data.period)
                    /\ sheet[i].active = "TRUE"}
  IN  IF matches = {} THEN 0 ELSE CHOOSE i \in matches : \A j \in matches : i <= j

\* SheetsService.set_budget(budget_data); update_ok and append_ok tell
\* whether the update_cell and the append_row request go through.  A failed
\* update_cell is caught and the row is appended anyway, a failed append_row
\* returns False
set_budget(sheet, budget_data, update_ok, append_ok) ==
  LET existing == existing_row(sheet, budget_data)
      updated == IF existing # 0 /\ update_ok
                 THEN [sheet EXCEPT ![existing].active = "FALSE"]
                 ELSE sheet
  IN  IF append_ok
      THEN [success |-> TRUE, sheet |-> Append(updated, BudgetRow(budget_data))]
      ELSE [success |-> FALSE, sheet |-> updated]

\* the budget_data dictionaries of the calls
BudgetData == [amount : 1..MaxAmount, period : Periods, category : Categories]

\* set_budget with both requests answered
SetBudget ==
  /\ Len(budgets) <= MaxRows
  /\ \E budget_data \in BudgetData :
       LET r == set_budget(budgets, budget_data, TRUE, TRUE)
       IN  /\ budgets' = r.sheet
           /\ last' = [op |-> "set_budget", success |-> r.success]
  /\ UNCHANGED <<shared, debts, expenses, nextId, today, loop, call, user_data,
                 conversation>>

\* set_budget when the update_cell request for the old row raises
SetBudgetUpdateFails ==
  /\ Len(budgets) <= MaxRows
  /\ \E budget_data \in BudgetData :
       LET r == set_budget(budgets, budget_data, FALSE, TRUE)
       IN  /\ existing_row(budgets, budget_data) # 0
           /\ budgets' = r.sheet
           /\ last' = [op |-> "set_budget", success |-> r.success]
  /\ UNCHANGED <<shared, debts, expenses, nextId, today, loop, call, user_data,
                 conversation>>

\* set_budget when the append_row request raises
SetBudgetAppendFails ==
  /\ \E budget_data \in BudgetData :
       LET r == set_budget(budgets, budget_data, TRUE, FALSE)
       IN  /\ budgets' = r.sheet
           /\ last' = [op |-> "set_budget", success |-> r.success]
  /\ UNCHANGED <<shared, debts, expenses, nextId, today, loop, call, user_data,
                 conversation>>

NextBudget == SetBudget \/ SetBudgetUpdateFails \/ SetBudgetAppendFails

SpecBudget == Init /\ [][NextBudget]_vars

(* ============================== claims ================================ *)

RECURSIVE ActiveTotal(_, _, _, _)
\* the amounts of the first n rows that belong to `person`, are not settled
\* and have direction `direction`, added up row by row
ActiveTotal(sheet, n, person, direction) ==
  IF n = 0 THEN 0
  ELSE ActiveTotal(sheet, n - 1, person, direction)
       + (IF /\ sheet[n].person = person
             /\ sheet[n].status # "Settled"
             /\ sheet[n].direction = direction
          THEN sheet[n].amount ELSE 0)

\* C1: in every ledger state get_balances reports, for every person, the sum
\* of that person's unsettled they_owe_me amounts, the sum of the unsettled
\* i_owe_them amounts and their difference; a person whose entries are all
\* settled (or who has none) is not reported at all, so settled entries
\* contribute nothing.
C1_BalanceIsDerived ==
  LET b == get_balances(shared)
  IN  \A p \in Persons :
        LET toUser == ActiveTotal(shared, Len(shared), p, "they_owe_me")
            byUser == ActiveTotal(shared, Len(shared), p, "i_owe_them")
        IN  IF \E i \in 1..Len(shared) : shared[i].person = p /\ shared[i].status # "Settled"
            THEN /\ p \in DOMAIN b
                 /\ b[p].they_owe_me = toUser
                 /\ b[p].i_owe_them = byUser
                 /\ b[p].net_amount = toUser - byUser
            ELSE p \notin DOMAIN b

\* a person with a settled entry and a still open one, both in the balance's direction
C1_Witness ==
  /\ last.op = "settle_shared_expense"
  /\ \E i, j \in 1..Len(shared) :
       /\ shared[i].person = shared[j].person
       /\ shared[i].status = "Settled" /\ shared[i].amount > 0
       /\ shared[j].status = "Unpaid" /\ shared[j].amount > 0
       /\ get_balances(shared)[shared[j].person].net_amount # 0

RECURSIVE PrefixTotal(_, _, _)
\* the amounts of the first k entries of an allocation order, added up
PrefixTotal(sheet, order, k) ==
  IF k = 0 THEN 0 ELSE sheet[order[k]].amount + PrefixTotal(sheet, order, k - 1)

\* every entry of the set has a strictly positive amount
AllPositive(sheet, rows) == \A i \in rows : sheet[i].amount > 0

\* C2: a settlement walks the person's active entries oldest first, whatever
\* their direction, and marks settled every entry that the payment still
\* covers: each entry whose amount together with the amounts of the older
\* active entries is at most the payment is settled by the one call.
C2_OldestFirstAllocation ==
  \A p \in DebtPersons, a \in SettleAmounts :
    LET active == get_debts_by_person(debts, p, "active")
        order == SortedBy(active, DateOf(debts))
        r == DebtService_settle_debt(debts, expenses, p, TRUE, a, today, nextId)
    IN  (a > 0 /\ AllPositive(debts, active))
        => \A k \in 1..Len(order) :
             PrefixTotal(debts, order, k) <= a => r.sheet[order[k]].status = "settled"

\* C3: when a settlement reaches an entry it cannot pay in full, the entry
\* becomes Settled with the paid amount and a new open entry of the same
\* person and direction carries the rest, the two amounts adding up to the
\* original amount; an entry the settlement changes is otherwise settled in full.
C3_SplitConservesAmount ==
  \A p \in Persons, a \in SettleAmounts :
    LET r == settle_shared_expense(shared, p, TRUE, a, today)
    IN  \A i \in 1..Len(shared) :
          r.sheet[i] # shared[i]
          => /\ r.sheet[i].status = "Settled"
             /\ \/ r.sheet[i].amount = shared[i].amount
                \/ \E j \in (Len(shared) + 1)..Len(r.sheet) :
                     /\ r.sheet[j].status = "Unpaid"
                     /\ r.sheet[j].person = shared[i].person
                     /\ r.sheet[j].direction = shared[i].direction
                     /\ r.sheet[i].amount + r.sheet[j].amount = shared[i].amount

\* C4: paying the total of a person's open entries (all of them positive) in
\* one settlement leaves the person without any open entry and without a balance.
C4_FullPaymentConverges ==
  \A p \in Persons :
    LET unpaid == unpaid_expenses(shared, p)
        T == SumOver(unpaid, AmountOf(shared))
        r == settle_shared_expense(shared, p, TRUE, T, today)
    IN  (unpaid # {} /\ AllPositive(shared, unpaid))
        => /\ r.success
           /\ unpaid_expenses(r.sheet, p) = {}
           /\ \A q \in DOMAIN get_balances(r.sheet) : lower(q) # lower(p)

\* C5: a payment larger than the total of the person's active entries settles
\* all of them and adds no entry to the ledger.
C5_OverpaymentSettlesAll ==
  \A p \in DebtPersons, a \in SettleAmounts :
    LET active == get_debts_by_person(debts, p, "active")
        r == DebtService_settle_debt(debts, expenses, p, TRUE, a, today, nextId)
    IN  (active # {} /\ AllPositive(debts, active) /\ a > SumOver(active, AmountOf(debts)))
        => /\ r.success
           /\ get_debts_by_person(r.sheet, p, "active") = {}
           /\ Len(r.sheet) = Len(debts)

\* C6: a settlement of a person whose active entries are all positive logs
\* exactly one expense for each entry with direction "to" (the user owes)
\* that it settles, for the amount that entry is settled with, and none for
\* "from" entries; earlier expenses are kept.
C6_ExpensePerPaidEntry ==
  \A p \in DebtPersons, a \in SettleAmounts :
    LET r == DebtService_settle_debt(debts, expenses, p, TRUE, a, today, nextId)
        new == SubSeq(r.expenses, Len(expenses) + 1, Len(r.expenses))
        paid == {i \in 1..Len(debts) : /\ debts[i].status = "active"
                                       /\ r.sheet[i].status = "settled"
                                       /\ debts[i].direction = "to"}
    IN  (a > 0 /\ AllPositive(debts, get_debts_by_person(debts, p, "active")))
        => /\ SubSeq(r.expenses, 1, Len(expenses)) = expenses
           /\ Len(new) = Cardinality(paid)
           /\ \A i \in paid : \E k \in 1..Len(new) : new[k].amount = r.sheet[i].amount

\* C7: a settlement of amount 0 is rejected and changes neither the ledger
\* nor the expenses.
C7_ZeroAmountRejected ==
  \A p \in DebtPersons :
    LET r == DebtService_settle_debt(debts, expenses, p, TRUE, 0, today, nextId)
    IN  r.success = FALSE /\ r.sheet = debts /\ r.expenses = expenses

\* C8: for a person with no open entry (none at all, or only settled ones)
\* settle_shared_expense reports failure for every amount and leaves the
\* worksheet as it was.
C8_NoActiveDebtFails ==
  \A p \in Persons, h \in BOOLEAN, a \in SettleAmounts :
    (\A i \in 1..Len(shared) :
        lower(shared[i].person) = lower(p) => shared[i].status = "Settled")
    => LET r == settle_shared_expense(shared, p, h, a, today)
       IN  r.success = FALSE /\ r.sheet = shared

\* a failed settlement on a worksheet that holds settled entries
C8_Witness ==
  /\ last.op = "settle_shared_expense"
  /\ last.success = FALSE
  /\ \E i \in 1..Len(shared) : shared[i].status = "Settled"

\* C9: Settled is terminal: no step changes any cell of a row whose status is
\* Settled, and no row is ever removed.
C9_SettledIsTerminal ==
  [][/\ Len(shared') >= Len(shared)
     /\ \A i \in 1..Len(shared) :
          shared[i].status = "Settled" => shared'[i] = shared[i]]_vars

\* a settlement that changes the worksheet while a row settled on an earlier
\* day belongs to the same person
C9_Witness ==
  /\ last.op = "settle_shared_expense"
  /\ last.success
  /\ \E i, j \in 1..Len(shared) :
       /\ lower(shared[i].person) = lower(shared[j].person)
       /\ shared[i].status = "Settled" /\ shared[i].settled < today
       /\ shared[j].status = "Settled" /\ shared[j].settled = today

\* C10: the ledger is append-only, a settlement never changes the person,
\* description or direction of a row, and it writes a row at most once: a row
\* that a settlement has already written (its status is no longer Unpaid) is
\* never changed again.
C10_AppendOnlyWrittenOnce ==
  [][/\ Len(shared') >= Len(shared)
     /\ \A i \in 1..Len(shared) :
          /\ shared'[i].person = shared[i].person
          /\ shared'[i].description = shared[i].description
          /\ shared'[i].direction = shared[i].direction
          /\ shared[i].status # "Unpaid" => shared'[i] = shared[i]]_vars

\* C11: in every state of the Debts worksheet every entry has an amount
\* greater than 0, the settled part and the remainder of a split included.
C11_AmountsPositive ==
  \A i \in 1..Len(debts) : debts[i].amount > 0

\* C12: a row of the Shared Expenses worksheet has a settled date exactly when
\* its status is Settled; Unpaid and Partial rows have none.
C12_SettledDateIffSettled ==
  \A i \in 1..Len(shared) : (shared[i].status = "Settled") <=> (shared[i].settled # 0)

\* C13: a recording step never appends an entry whose amount is 0 or less or
\* whose person is empty: such a request is rejected and the ledger stays as
\* it was.
C13_InvalidDebtRejected ==
  [][last'.op \in {"add_debt", "record_debt"}
     => \A i \in (Len(debts) + 1)..Len(debts') :
          debts'[i].amount > 0 /\ debts'[i].person # ""]_vars

\* C14: every entry a step adds to the Debts worksheet, by a recording call
\* or as the remainder of a split, is active when it is added and has an id
\* that no entry already in the worksheet has; the existing entries keep
\* their ids, so an id is never used twice.
C14_FreshActiveIds ==
  [][/\ Len(debts') >= Len(debts)
     /\ \A j \in 1..Len(debts) : debts'[j].id = debts[j].id
     /\ \A i \in (Len(debts) + 1)..Len(debts') :
          /\ debts'[i].status = "active"
          /\ \A j \in 1..Len(debts) : debts'[i].id # debts[j].id]_vars

\* two recorded entries and the remainder a split has just added
C14_Witness ==
  /\ last.op = "settle_debt"
  /\ Len(debts) = MaxRows + 1
  /\ debts[Len(debts)].status = "active"
  /\ \E i \in 1..MaxRows : debts[i].status = "settled" /\ debts[i].settled = today

\* the ledger and the expenses after the call of handler h1 and then the call
\* of handler h2, each run to its end, starting from the ledger the two
\* messages found
Serial(h1, h2) ==
  LET b == loop.base
      c == loop.calls
      r1 == DebtService_settle_debt(b.debts, b.expenses, c[h1].person, TRUE,
                                    c[h1].amount, today, b.nextId)
      n1 == IF Len(r1.sheet) > Len(b.debts) THEN b.nextId + 1 ELSE b.nextId
      r2 == DebtService_settle_debt(r1.sheet, r1.expenses, c[h2].person, TRUE,
                                    c[h2].amount, today, n1)
  IN  <<r2.sheet, r2.expenses>>

\* C15: two settle calls in flight for the same person are serialized: the
\* entry a call has read and is about to pay is still in the worksheet as it
\* was read (no other call has paid it in between), and once both calls have
\* written, the worksheet and the expenses are those of running the two
\* calls one after the other in one of the two orders.
C15_SettlesSerialized ==
  /\ \A h \in Handlers :
       loop.calls[h].pc = "selected"
       => \E i \in 1..Len(debts) : debts[i] = Head(loop.calls[h].selected)
  /\ (\A h \in Handlers : loop.calls[h].pc \in {"reply", "done"})
     => <<debts, expenses>> \in {Serial(1, 2), Serial(2, 1)}

\* both calls have paid an entry of the same person and neither handler has
\* finished yet
C15_Witness ==
  /\ \A h \in Handlers : loop.calls[h].pc = "reply" /\ loop.calls[h].success
  /\ loop.calls[1].amount # loop.calls[2].amount
  /\ Len(debts) > Len(loop.base.debts)

\* the persons of a group of list_all_balances
GroupPersons(group) == {group[k].person : k \in 1..Len(group)}

C17_UnknownPersonZeroBalance ==
  [][last'.op = "get_balance"
     => /\ debts' = debts /\ expenses' = expenses /\ shared' = shared
        /\ (\A i \in 1..Len(debts) : lower(debts[i].person) # lower(last'.person))
           => (last'.success /\ last'.balance = 0)]_vars

\* a balance was asked for a person without entries while another person has some
C17_Witness ==
  /\ last.op = "get_balance"
  /\ last.success
  /\ debts # <<>>
  /\ \A i \in 1..Len(debts) : lower(debts[i].person) # lower(last.person)

\* C18: when a settlement splits an entry, the remainder keeps the person,
\* the direction and the date of the original, and the next settlement for
\* the person takes it at the original's position: it does not pick an entry
\* that was created after the original ahead of the remainder.
C18_RemainderKeepsPosition ==
  \A p \in DebtPersons, a \in SettleAmounts :
    LET r == DebtService_settle_debt(debts, expenses, p, TRUE, a, today, nextId)
        original == r.settled
        remainder == Len(r.sheet)
        next == DebtService_settle_debt(r.sheet, r.expenses, p, TRUE, a, today,
                                        nextId + 1).settled
    IN  (a > 0 /\ r.success /\ Len(r.sheet) > Len(debts))
        => /\ r.sheet[remainder].person = debts[original].person
           /\ r.sheet[remainder].direction = debts[original].direction
           /\ r.sheet[remainder].date = debts[original].date
           /\ ~(original < next /\ next < remainder)

\* the orders in which a store can return the rows S
Orderings(S) ==
  {list \in [1..Cardinality(S) -> S] :
     \A k, l \in 1..Cardinality(S) : k # l => list[k] # list[l]}

\* C19: the order in which a settlement takes a person's active entries is
\* the same for every order in which the store returns them, and it is by
\* date ascending with entries of the same date by id ascending.
C19_OrderIndependentOfStore ==
  \A p \in DebtPersons :
    LET active == get_debts_by_person(debts, p, "active")
    IN  \A returned \in Orderings(active) :
          LET order == StableSort(returned, DateOf(debts))
          IN  /\ \A other \in Orderings(active) :
                   StableSort(other, DateOf(debts)) = order
              /\ \A k \in 1..(Len(order) - 1) :
                   \/ debts[order[k]].date < debts[order[k + 1]].date
                   \/ /\ debts[order[k]].date = debts[order[k + 1]].date
                      /\ debts[order[k]].id < debts[order[k + 1]].id

\* C20: a settlement for one person leaves every row of every other person
\* as it was and adds no row, so the balance of every other person is what
\* it was before; and two settlements for different persons give the same
\* worksheet in either order.  Persons are compared as the settlement
\* compares them, without regard to case.
C20_OtherPersonsUntouched ==
  \A p \in Persons, h \in BOOLEAN, a \in SettleAmounts :
    LET r == settle_shared_expense(shared, p, h, a, today)
        before == get_balances(shared)
        after == get_balances(r.sheet)
    IN  /\ Len(r.sheet) = Len(shared)
        /\ \A i \in 1..Len(shared) :
             lower(shared[i].person) # lower(p) => r.sheet[i] = shared[i]
        /\ \A q \in Persons :
             lower(q) # lower(p)
             => /\ (q \in DOMAIN before) <=> (q \in DOMAIN after)
                /\ q \in DOMAIN before => after[q] = before[q]
                /\ \A b \in SettleAmounts :
                     settle_shared_expense(r.sheet, q, h, b, today).sheet
                     = settle_shared_expense(
                         settle_shared_expense(shared, q, h, b, today).sheet,
                         p, h, a, today).sheet

\* a settlement has just settled a row of one person while another person
\* has an open row with a balance
C20_Witness ==
  /\ last.op = "settle_shared_expense"
  /\ last.success
  /\ \E i, j \in 1..Len(shared) :
       /\ lower(shared[i].person) # lower(shared[j].person)
       /\ shared[i].status = "Settled" /\ shared[i].settled = today
       /\ shared[j].status = "Unpaid" /\ shared[j].amount > 0

\* C21: a balance query never reads a partially updated row: in the rows it
\* reads, a row whose status is already Settled has its settled date, and a
\* row with a settled date has status Settled.
C21_QueryReadsWholeRows ==
  last.op = "get_balances"
  => \A i \in 1..Len(last.read) :
       (last.read[i].status = "Settled") <=> (last.read[i].settled # 0)

\* C22: when a settlement has failed between the two writes of a split, the
\* next access to the ledger either leaves the worksheet with the missing
\* remainder entry in it or reports a conflict.
C22_HalfSplitRepaired ==
  [][(/\ last.op = "settle_debt"
      /\ ~last.success
      /\ "lost" \in DOMAIN last
      /\ last' # last)
     => \/ \E i \in 1..Len(debts') : debts'[i] = last.lost
        \/ last'.op = "conflict"]_vars

\* C23: a person is the name without regard to letter case: the balance
\* reported for a name covers exactly the open rows a settlement for that
\* name works on, that is every open row whose person is the same name in
\* any letter case, and no row of a person whose name differs otherwise.
C23_PersonIsCaseFolded ==
  LET b == get_balances(shared)
  IN  \A p \in DOMAIN b :
        LET rows == unpaid_expenses(shared, p)
        IN  /\ \A i \in rows : lower(shared[i].person) = lower(p)
            /\ b[p].they_owe_me
                 = SumOver({i \in rows : shared[i].direction = "they_owe_me"},
                           AmountOf(shared))
            /\ b[p].i_owe_them
                 = SumOver({i \in rows : shared[i].direction = "i_owe_them"},
                           AmountOf(shared))

\* C24: a call of DebtService.settle_debt that reports success False has
\* changed no debt entry and logged no expense.
C24_FailedSettleChangesNothing ==
  [][(last'.op = "settle_debt" /\ ~last'.success)
     => (debts' = debts /\ expenses' = expenses)]_vars

\* C25: after 'Settle Debt' is pressed in a chat with no conversation and no
\* flag set, the next text message is handled by the settlement branch of
\* handle_debt_person_input, and the message after a balance was found by the
\* settlement branch of handle_debt_amount_input; neither is treated as a
\* step of the add-debt flow, whatever conversations were run before
C25_SettleFlowStaysSettle ==
  [][/\ (/\ last.op = "button_handler" /\ last.data = "settle_debt" /\ last.fresh
         /\ last'.op # "button_handler")
        => (last'.op = "handle_debt_person_input" /\ last'.branch = "settle")
     /\ (/\ last.op = "handle_debt_person_input" /\ last.branch = "settle"
         /\ last.ret = "AWAITING_DEBT_AMOUNT"
         /\ last'.op # "button_handler")
        => (last'.op = "handle_debt_amount_input"
            /\ last'.branch \in {"settle", "invalid"})]_vars

\* C26: at most one of the six conversation flags is true at any time
C26_OneFlagAtATime ==
  Cardinality({f \in Flags : get(user_data, f)}) <= 1

\* C30: when a debt handler has returned ConversationHandler.END, none of
\* the scratch keys is left in user_data and no conversation flag is true
C30_EndLeavesNothing ==
  ("ret" \in DOMAIN last /\ last.ret = "END")
  => /\ Scratch \cap DOMAIN user_data = {}
     /\ \A f \in Flags : ~get(user_data, f)

\* C27: after a successful settle_shared_expense(person, amount=None),
\* get_balances has no entry for the person under any spelling: nothing is
\* outstanding in either direction
C27_SettleAllClearsPerson ==
  \A person \in Persons :
    LET r == settle_shared_expense(shared, person, FALSE, 0, today)
    IN  r.success
        => \A p \in DOMAIN get_balances(r.sheet) : lower(p) # lower(person)

\* C28: when a person has one outstanding entry of a positive amount and
\* two successive payments for the person add up to at least that amount,
\* the entry is Settled after the second payment
C28_PartialPaymentsAccumulate ==
  \A person \in Persons, i \in 1..Len(shared), a1 \in 1..MaxAmount, a2 \in 1..MaxAmount :
    LET r1 == settle_shared_expense(shared, person, TRUE, a1, today)
        r2 == settle_shared_expense(r1.sheet, person, TRUE, a2, today)
    IN  (/\ unpaid_expenses(shared, person) = {i}
         /\ shared[i].amount > 0
         /\ a1 + a2 >= shared[i].amount
         /\ r1.success)
        => r2.sheet[i].status = "Settled"

\* C29: in the Budgets worksheet at most one row per category and period,
\* compared in lower case, is active
C29_OneActiveBudgetPerPair ==
  \A i \in 1..Len(budgets), j \in 1..Len(budgets) :
    (/\ i # j
     /\ budgets[i].active = "TRUE" /\ budgets[j].active = "TRUE"
     /\ lower(budgets[i].category) = lower(budgets[j].category))
    => lower(budgets[i].period) # lower(budgets[j].period)

====
